---------------------------- MODULE Spec2Model ----------------------------
(***************************************************************************)
(* RAG fact-checking API (src/api.py).                                     *)
(*                                                                         *)
(* One FastAPI application with a single endpoint, POST /solve.  A request *)
(* is handled by the coroutine solve_endpoint, which awaits two blocking   *)
(* calls run in the thread pool: kb_search (an HTTP search service) and    *)
(* analyze_with_gpt (a chat completion).  The model keeps one slot per     *)
(* in-flight request, with the coroutine's local variables, and cuts the   *)
(* handler where it waits for an external service:                         *)
(*                                                                         *)
(*   idle --Receive--> kb_wait --KbReturn--> gpt_wait --GptReturn--> done  *)
(*            |                     |                                      *)
(*            +--> rejected         +--> done (no documents / exception)   *)
(*                                                                         *)
(* The replies of the two external services are the inputs of the model.   *)
(* Python values are modelled structurally: a dict is a function from its  *)
(* keys, a list is a sequence, a call either returns a value or raises.    *)
(***************************************************************************)
EXTENDS Naturals, Sequences, FiniteSets, TLC

\* ------------------------------------------------------------------ bounds

\* Number of request slots (requests that can be in flight together).
NumReq == 2
\* Longest "results" list the search service returns in the model.
MaxDocs == 2

Requests == 1..NumReq

\* ------------------------------------------------------- program constants

KB_SEARCH_URL == "https://squid-app-7q77b.ondigitalocean.app/api/api/kb/factcheck/search"
TOP_K == 5

\* ------------------------------------------------------ Python call results

\* A call that returns v, and a call that raises an exception whose str() is e.
Return(v) == [tag |-> "return", value |-> v]
Raise(e) == [tag |-> "raise", exc |-> e]

\* A dict with no key; also the value of a local that is not bound yet.
EmptyDict == [k \in {} |-> ""]

\* d[key] = v on a dict.
DictSet(d, key, v) == [k \in (DOMAIN d) \cup {key} |-> IF k = key THEN v ELSE d[k]]

SeqsUpTo(S, n) == UNION {[1..k -> S] : k \in 0..n}

RECURSIVE Join(_, _)
\* sep.join(strs)
Join(strs, sep) ==
    IF Len(strs) = 0 THEN ""
    ELSE IF Len(strs) = 1 THEN strs[1]
    ELSE strs[1] \o sep \o Join(Tail(strs), sep)

\* ------------------------------------------------- the knowledge-base service

\* Elements the search service can put in "results".  A well-formed document
\* is a JSON object with doc_id and content; the service is remote, so an
\* element may also lack either key, or not be an object at all (a JSON
\* string, or a character of a "results" value that is itself a string).
DocWater == [doc_id |-> "D1", content |-> "Water boils at 100C at standard atmospheric pressure."]
DocEarth == [doc_id |-> "D2", content |-> "The Earth is an oblate spheroid."]
DocNoId == [content |-> "An entry without identifier."]
DocNoContent == [doc_id |-> "D3"]
DocStr == [str |-> "D4"]

GoodDocs == {DocWater, DocEarth}
AnyDocs == GoodDocs \cup {DocNoId, DocNoContent, DocStr}

\* What requests.post(KB_SEARCH_URL, ...) and the calls on its response can do:
\*   ConnectionError  requests.post raises (transport failure)
\*   Timeout          requests.post raises after timeout=10
\*   HTTPError        resp.raise_for_status() raises (non-success status)
\*   body_not_json    resp.json() raises
\*   body_not_object  resp.json() is not a dict, so .get raises AttributeError
\*   no_results_key   resp.json() is a dict without "results"
\*   results_null     "results" is null, so len(results) raises TypeError
\*   results          "results" is the list in the field results
KbFailureKinds == {"ConnectionError", "Timeout", "HTTPError", "body_not_json",
                   "body_not_object", "results_null"}
KbReply(kind, results) == [kind |-> kind, results |-> results]
\* A service that ignores "top_k" and returns one document more than asked
\* for: nothing on the wire prevents it.
OversizedResults == [i \in 1..(TOP_K + 1) |-> IF i % 2 = 1 THEN DocWater ELSE DocEarth]

KbReplies ==
    {KbReply(k, <<>>) : k \in KbFailureKinds \cup {"no_results_key"}}
    \cup {KbReply("results", ds) : ds \in SeqsUpTo(AnyDocs, MaxDocs)}
    \cup {KbReply("results", OversizedResults)}

\* The body of the POST and where it goes (api.py line 41, 43).
KbPayload(query, top_k) == [url |-> KB_SEARCH_URL, query |-> query, top_k |-> top_k]

\* kb_search as it would be if it checked the elements of "results" and treated
\* a list holding anything but documents as a failed search.
kb_search_checked(reply) ==
    CASE reply.kind \in KbFailureKinds -> <<>>
      [] reply.kind = "no_results_key" -> <<>>
      [] reply.kind = "results" ->
           IF \A i \in 1..Len(reply.results) : reply.results[i] \in GoodDocs
           THEN reply.results ELSE <<>>

\* kb_search as it would be if it kept only the first top_k elements of
\* "results".
kb_search_truncated(reply) ==
    CASE reply.kind \in KbFailureKinds -> <<>>
      [] reply.kind = "no_results_key" -> <<>>
      [] reply.kind = "results" ->
           SubSeq(reply.results, 1, IF Len(reply.results) < TOP_K
                                    THEN Len(reply.results) ELSE TOP_K)

\* kb_search: every exception inside the try is caught and turned into [];
\* otherwise the "results" value is returned as it came (api.py lines 40-50).
kb_search(reply) ==
    CASE reply.kind \in KbFailureKinds -> <<>>
      [] reply.kind = "no_results_key" -> <<>>
      [] reply.kind = "results" -> reply.results

\* ------------------------------------------------------ the reasoning service

\* Completion texts the language model can return.
TextVerdict == "{\"thought_process\": \"...\", \"final_answer\": \"True\", \"citation\": \"D1\"}"
TextEmptyObject == "{}"
TextProse == "The claim is partially supported by D1."
TextPreface == "Here is the JSON: {\"final_answer\": \"False\"}"
TextArray == "[\"True\"]"
TextOwnIds == "{\"thought_process\": \"t\", \"final_answer\": \"Maybe\", \"citation\": \"D9\", \"retrieved_context_ids\": [\"X\"]}"
TextErrorKey == "{\"thought_process\": \"t\", \"final_answer\": \"False\", \"citation\": \"D2\", \"error\": \"none\"}"

Completions == {TextVerdict, TextEmptyObject, TextProse, TextPreface, TextArray,
                TextOwnIds, TextErrorKey}

\* json.loads on the texts above: the parsed value with its Python type, or
\* json.JSONDecodeError for a text that is not JSON (api.py line 87).
json_loads(text) ==
    CASE text = TextVerdict ->
           [tag |-> "return", type |-> "dict",
            value |-> [thought_process |-> "...", final_answer |-> "True", citation |-> "D1"]]
      [] text = TextEmptyObject ->
           [tag |-> "return", type |-> "dict", value |-> EmptyDict]
      [] text = TextArray ->
           [tag |-> "return", type |-> "list", value |-> EmptyDict]
      [] text = TextOwnIds ->
           [tag |-> "return", type |-> "dict",
            value |-> [thought_process |-> "t", final_answer |-> "Maybe", citation |-> "D9",
                       retrieved_context_ids |-> <<"X">>]]
      [] text = TextErrorKey ->
           [tag |-> "return", type |-> "dict",
            value |-> [thought_process |-> "t", final_answer |-> "False", citation |-> "D2",
                       error |-> "none"]]
      [] text \in {TextProse, TextPreface} -> [tag |-> "JSONDecodeError"]

\* What openai.chat.completions.create and the read of its result can do:
\*   raise       the call raises; text is str(e), which may be empty
\*   no_choices  response.choices is empty, so choices[0] raises IndexError
\*   no_content  message.content is None, so json.loads raises TypeError
\*   completion  message.content is the string in the field text
GptReply(kind, text) == [kind |-> kind, text |-> text]
GptReplies ==
    {GptReply("raise", e) : e \in {"Connection error.", "Request timed out.", ""}}
    \cup {GptReply("no_choices", ""), GptReply("no_content", "")}
    \cup {GptReply("completion", t) : t \in Completions}

\* The chat completion request (api.py lines 59-81).
GptRequest(claim, context_text) ==
    [model |-> "gpt-4", system |-> "You are a careful fact-checker.",
     claim |-> claim, context_text |-> context_text, temperature |-> 0]

\* ------------------------------------------------------------ analyze_with_gpt

\* repr() of a key, which is what str() of a KeyError shows.
KeyRepr(key) == CASE key = "doc_id" -> "'doc_id'" [] key = "content" -> "'content'"

\* doc[key] on an element of docs: a str cannot be indexed by a str
\* (TypeError), a dict without the key raises KeyError, whose str() is the
\* repr of the key.
Subscript(doc, key) ==
    IF "str" \in DOMAIN doc THEN Raise("string indices must be integers")
    ELSE IF key \notin DOMAIN doc THEN Raise(KeyRepr(key))
    ELSE Return(doc[key])

RECURSIVE doc_ids(_)
\* [doc["doc_id"] for doc in docs]  (api.py line 56)
doc_ids(docs) ==
    IF Len(docs) = 0 THEN Return(<<>>)
    ELSE LET h == Subscript(Head(docs), "doc_id") IN
         IF h.tag = "raise" THEN h
         ELSE LET t == doc_ids(Tail(docs)) IN
              IF t.tag = "raise" THEN t ELSE Return(<<h.value>> \o t.value)

\* f"{doc['doc_id']}: {doc['content']}"  (api.py lines 57, 93, 104)
doc_line(doc) ==
    LET i == Subscript(doc, "doc_id")
        c == Subscript(doc, "content") IN
    IF i.tag = "raise" THEN i
    ELSE IF c.tag = "raise" THEN c
    ELSE Return(i.value \o ": " \o c.value)

RECURSIVE doc_lines(_)
\* [f"{doc['doc_id']}: {doc['content']}" for doc in docs]
doc_lines(docs) ==
    IF Len(docs) = 0 THEN Return(<<>>)
    ELSE LET h == doc_line(Head(docs)) IN
         IF h.tag = "raise" THEN h
         ELSE LET t == doc_lines(Tail(docs)) IN
              IF t.tag = "raise" THEN t ELSE Return(<<h.value>> \o t.value)

\* analyze_with_gpt up to the completion call (api.py lines 55-70): the two
\* comprehensions run outside the try, so what they raise leaves the function.
analyze_with_gpt_enter(claim, docs) ==
    LET ids == doc_ids(docs)
        lines == doc_lines(docs) IN
    IF ids.tag = "raise" THEN ids
    ELSE IF lines.tag = "raise" THEN lines
    ELSE Return([retrieved_context_ids |-> ids.value,
                 request |-> GptRequest(claim, Join(lines.value, "\n\n"))])

\* "; ".join([f"{doc['doc_id']}: {doc['content']}" for doc in docs]); only
\* evaluated after line 57 succeeded on the same docs (api.py lines 93, 104).
fallback_citation(docs) == Join(doc_lines(docs).value, "; ")

\* parse_fallback as it would be if it reused context_text (joined by blank
\* lines) as the citation.
parse_fallback_context_text(gpt_output, docs) ==
    [thought_process |-> gpt_output,
     final_answer |-> "Partially True",
     citation |-> Join(doc_lines(docs).value, "\n\n")]

\* The dict built when json.loads raises JSONDecodeError (api.py lines 88-94).
parse_fallback(gpt_output, docs) ==
    [thought_process |-> gpt_output,
     final_answer |-> "Partially True",
     citation |-> fallback_citation(docs)]

\* gpt_error_verdict as it would be if it were a copy of the handler's
\* fallback: no citation, no identifiers.
gpt_error_verdict_without_context(e, docs, retrieved_context_ids) ==
    [thought_process |-> "",
     final_answer |-> "Partially True",
     citation |-> "",
     retrieved_context_ids |-> <<>>,
     error |-> e]

\* The dict returned by the outer except (api.py lines 99-107).
gpt_error_verdict(e, docs, retrieved_context_ids) ==
    [thought_process |-> "",
     final_answer |-> "Partially True",
     citation |-> fallback_citation(docs),
     retrieved_context_ids |-> retrieved_context_ids,
     error |-> e]

\* attach_ids as it would be if it also completed the parsed dict with the
\* default Verdict fields.
attach_ids_with_defaults(parsed, retrieved_context_ids) ==
    IF parsed.type # "dict" THEN Raise("list indices must be integers or slices, not str")
    ELSE Return([k \in (DOMAIN parsed.value)
                        \cup {"thought_process", "final_answer", "citation",
                              "retrieved_context_ids"} |->
                    IF k = "retrieved_context_ids" THEN retrieved_context_ids
                    ELSE IF k \in DOMAIN parsed.value THEN parsed.value[k]
                    ELSE IF k = "final_answer" THEN "Partially True"
                    ELSE ""])

\* attach_ids as it would be with result.setdefault(...): identifiers the
\* completion brings along are kept.
attach_ids_setdefault(parsed, retrieved_context_ids) ==
    IF parsed.type # "dict" THEN Raise("'list' object has no attribute 'setdefault'")
    ELSE IF "retrieved_context_ids" \in DOMAIN parsed.value THEN Return(parsed.value)
    ELSE Return(DictSet(parsed.value, "retrieved_context_ids", retrieved_context_ids))

\* result["retrieved_context_ids"] = retrieved_context_ids (api.py line 96):
\* an item assignment, which raises TypeError on a parsed value that is not a
\* dict.
attach_ids(parsed, retrieved_context_ids) ==
    IF parsed.type # "dict" THEN Raise("list indices must be integers or slices, not str")
    ELSE Return(DictSet(parsed.value, "retrieved_context_ids", retrieved_context_ids))

\* analyze_with_gpt from the completion call on (api.py lines 72-107); it
\* always returns a dict.
analyze_with_gpt_finish(docs, retrieved_context_ids, reply) ==
    CASE reply.kind = "raise" ->
           gpt_error_verdict(reply.text, docs, retrieved_context_ids)
      [] reply.kind = "no_choices" ->
           gpt_error_verdict("list index out of range", docs, retrieved_context_ids)
      [] reply.kind = "no_content" ->
           gpt_error_verdict("the JSON object must be str, bytes or bytearray, not NoneType",
                             docs, retrieved_context_ids)
      [] reply.kind = "completion" ->
           LET parsed == json_loads(reply.text) IN
           IF parsed.tag = "JSONDecodeError"
           THEN DictSet(parse_fallback(reply.text, docs),
                        "retrieved_context_ids", retrieved_context_ids)
           ELSE LET set == attach_ids(parsed, retrieved_context_ids) IN
                IF set.tag = "raise"
                THEN gpt_error_verdict(set.exc, docs, retrieved_context_ids)
                ELSE set.value

\* --------------------------------------------------------------- the endpoint

\* Claims a caller can send.
Claims == {"The Earth is flat", "Water boils at 100C at sea level"}
NoClaim == "<no request>"

\* JSON bodies of POST /solve: the field claim is a string, is missing, or is
\* null.
Body(kind, claim) == [kind |-> kind, claim |-> claim]
Bodies == {Body("str", c) : c \in Claims} \cup {Body("missing", NoClaim), Body("null", NoClaim)}

\* SolveRequest, the declared body of the endpoint (api.py lines 34-35): the
\* framework builds it from the JSON body before it calls solve_endpoint, and a
\* body without a string claim fails validation.
SolveRequest(json) ==
    IF json.kind = "str" THEN Return([claim |-> json.claim])
    ELSE IF json.kind = "missing" THEN Raise("Field required")
    ELSE Raise("Input should be a valid string")

\* The framework's answer to a body that fails validation (api.py lines
\* 112-113: request: SolveRequest): status 422, and the handler is not called.
validation_error_response(e) == [detail |-> e]

\* no_documents_verdict as it would be if the branch reported the empty search
\* as an error.
no_documents_verdict_with_error ==
    [thought_process |-> "No documents found in KB.",
     final_answer |-> "Partially True",
     citation |-> "",
     retrieved_context_ids |-> <<>>,
     error |-> "No documents found in KB."]

\* The dict returned when kb_search gave nothing (api.py lines 119-126).
no_documents_verdict ==
    [thought_process |-> "No documents found in KB.",
     final_answer |-> "Partially True",
     citation |-> "",
     retrieved_context_ids |-> <<>>]

\* The dict returned by the handler's except (api.py lines 131-139).
endpoint_error_verdict(e) ==
    [thought_process |-> "",
     final_answer |-> "Partially True",
     citation |-> "",
     retrieved_context_ids |-> <<>>,
     error |-> e]

\* solve_endpoint_except as it would be without the try: the exception leaves
\* the handler.
solve_endpoint_reraise(e) == Raise(e)

\* except Exception as e around the body of solve_endpoint (api.py lines 116,
\* 131-139): what an exception reaching the handler becomes.
solve_endpoint_except(e) == Return(endpoint_error_verdict(e))

\* solve_endpoint_after_search as it would be without the "if not docs" branch:
\* analyze_with_gpt is entered with whatever kb_search returned.
solve_endpoint_after_search_no_short_circuit(claim, docs) ==
    LET entered == analyze_with_gpt_enter(claim, docs) IN
    IF entered.tag = "raise"
    THEN [next |-> "respond", result |-> endpoint_error_verdict(entered.exc)]
    ELSE [next |-> "call_gpt", locals |-> entered.value]

\* solve_endpoint from the return of kb_search to its next await or return
\* (api.py lines 118-128): "respond" with a dict, "escape" with an exception,
\* or "call_gpt" with the locals of analyze_with_gpt.
solve_endpoint_after_search(claim, docs) ==
    IF Len(docs) = 0
    THEN [next |-> "respond", result |-> no_documents_verdict]
    ELSE LET entered == analyze_with_gpt_enter(claim, docs) IN
         IF entered.tag = "raise"
         THEN LET handled == solve_endpoint_except(entered.exc) IN
              IF handled.tag = "raise"
              THEN [next |-> "escape", exc |-> handled.exc]
              ELSE [next |-> "respond", result |-> handled.value]
         ELSE [next |-> "call_gpt", locals |-> entered.value]

\* ----------------------------------------------------------------------- state

VARIABLES
    OPENAI_API_KEY,         \* what the name OPENAI_API_KEY is bound to at line 16
    environ,                \* os.environ after load_dotenv()
    api_key,                \* openai.api_key
    app,                    \* "loading", "serving", or the startup error
    pc,                     \* per request: where its coroutine is
    body,                   \* per request: the JSON body received
    claim,                  \* per request: local claim of solve_endpoint
    kb_call,                \* per request: the search request sent
    kb_calls,               \* per request: search requests sent so far
    kb_reply,               \* per request: what the search service did
    docs,                   \* per request: local docs of solve_endpoint
    retrieved_context_ids,  \* per request: local of analyze_with_gpt
    gpt_call,               \* per request: the completion request sent
    gpt_calls,              \* per request: completion requests sent so far
    gpt_reply,              \* per request: what the completion service did
    status,                 \* per request: HTTP status of the answer
    response                \* per request: body of the answer

vars == <<OPENAI_API_KEY, environ, api_key, app, pc, body, claim, kb_call, kb_calls,
          kb_reply, docs, retrieved_context_ids, gpt_call, gpt_calls, gpt_reply, status,
          response>>

startup == <<OPENAI_API_KEY, environ, api_key, app>>

Unbound == "<unbound>"
NoBody == Body("none", NoClaim)
NoKbReply == KbReply("none", <<>>)
NoGptReply == GptReply("none", "")

\* api.py binds no name OPENAI_API_KEY and never reads os.environ: what line 16
\* finds under that name is decided outside the file, so it is an input here
\* (not bound at all, bound to an empty value, bound to a key), independent of
\* whether the process environment holds the credential.
Init ==
    /\ OPENAI_API_KEY \in {Unbound, "", "sk-test"}
    /\ environ \in {EmptyDict, [OPENAI_API_KEY |-> "sk-test"]}
    /\ api_key = ""
    /\ app = "loading"
    /\ pc = [r \in Requests |-> "idle"]
    /\ body = [r \in Requests |-> NoBody]
    /\ claim = [r \in Requests |-> NoClaim]
    /\ kb_call = [r \in Requests |-> EmptyDict]
    /\ kb_calls = [r \in Requests |-> 0]
    /\ kb_reply = [r \in Requests |-> NoKbReply]
    /\ docs = [r \in Requests |-> <<>>]
    /\ retrieved_context_ids = [r \in Requests |-> <<>>]
    /\ gpt_call = [r \in Requests |-> EmptyDict]
    /\ gpt_calls = [r \in Requests |-> 0]
    /\ gpt_reply = [r \in Requests |-> NoGptReply]
    /\ status = [r \in Requests |-> 0]
    /\ response = [r \in Requests |-> EmptyDict]

\* blocks_event_loop as it would be if the handler called kb_search and
\* analyze_with_gpt directly: the coroutine keeps the loop until the call ends.
blocks_event_loop_direct_call(q) == pc[q] \in {"kb_wait", "gpt_wait"}

\* Whether the coroutine of request q keeps the event loop while it waits for an
\* external service.  Both blocking calls are awaited through
\* run_in_threadpool (api.py lines 118, 128), so the loop is released.  (The
\* pool's threads are not modelled: it has more of them than there are slots.)
blocks_event_loop(q) == FALSE

\* The steps of a handler run on the event loop: no other coroutine keeps it.
EventLoopFree(r) == \A q \in Requests \ {r} : ~blocks_event_loop(q)

\* Module initialisation (api.py lines 15-18): reading an unbound name raises
\* NameError, an empty key raises ValueError, otherwise the app is served.
ModuleInit ==
    /\ app = "loading"
    /\ IF OPENAI_API_KEY = Unbound
       THEN /\ app' = "NameError"
            /\ api_key' = api_key
       ELSE /\ api_key' = OPENAI_API_KEY
            /\ app' = IF OPENAI_API_KEY = "" THEN "ValueError" ELSE "serving"
    /\ UNCHANGED <<OPENAI_API_KEY, environ, pc, body, claim, kb_call, kb_calls, kb_reply,
                   docs, retrieved_context_ids, gpt_call, gpt_calls, gpt_reply, status,
                   response>>

\* POST /solve arrives with the given body (api.py lines 112-118): validation,
\* then claim = request.claim and kb_search(claim) goes to the thread pool.
Receive(r, json) ==
    /\ app = "serving"
    /\ pc[r] = "idle"
    /\ EventLoopFree(r)
    /\ body' = [body EXCEPT ![r] = json]
    /\ LET request == SolveRequest(json) IN
       IF request.tag = "raise"
       THEN /\ pc' = [pc EXCEPT ![r] = "rejected"]
            /\ status' = [status EXCEPT ![r] = 422]
            /\ response' = [response EXCEPT ![r] = validation_error_response(request.exc)]
            /\ UNCHANGED <<claim, kb_call, kb_calls>>
       ELSE /\ pc' = [pc EXCEPT ![r] = "kb_wait"]
            /\ claim' = [claim EXCEPT ![r] = request.value.claim]
            /\ kb_call' = [kb_call EXCEPT ![r] = KbPayload(request.value.claim, TOP_K)]
            /\ kb_calls' = [kb_calls EXCEPT ![r] = @ + 1]
            /\ UNCHANGED <<status, response>>
    /\ UNCHANGED <<startup, kb_reply, docs, retrieved_context_ids, gpt_call, gpt_calls,
                   gpt_reply>>

\* KbReturn as it would be if docs were one module-level variable: the list
\* kb_search returned for one request replaces the list of every request.
KbReturnSharedDocs(r, reply) ==
    /\ pc[r] = "kb_wait"
    /\ EventLoopFree(r)
    /\ kb_reply' = [kb_reply EXCEPT ![r] = reply]
    /\ docs' = [q \in Requests |-> kb_search(reply)]
    /\ LET step == solve_endpoint_after_search(claim[r], kb_search(reply)) IN
       CASE step.next = "respond" ->
              /\ pc' = [pc EXCEPT ![r] = "done"]
              /\ status' = [status EXCEPT ![r] = 200]
              /\ response' = [response EXCEPT ![r] = step.result]
              /\ UNCHANGED <<retrieved_context_ids, gpt_call, gpt_calls>>
         [] step.next = "escape" ->
              /\ pc' = [pc EXCEPT ![r] = "crashed"]
              /\ status' = [status EXCEPT ![r] = 500]
              /\ response' = [response EXCEPT ![r] = [detail |-> "Internal Server Error"]]
              /\ UNCHANGED <<retrieved_context_ids, gpt_call, gpt_calls>>
         [] step.next = "call_gpt" ->
              /\ pc' = [pc EXCEPT ![r] = "gpt_wait"]
              /\ retrieved_context_ids' =
                     [retrieved_context_ids EXCEPT ![r] = step.locals.retrieved_context_ids]
              /\ gpt_call' = [gpt_call EXCEPT ![r] = step.locals.request]
              /\ gpt_calls' = [gpt_calls EXCEPT ![r] = @ + 1]
              /\ UNCHANGED <<status, response>>
    /\ UNCHANGED <<startup, body, claim, kb_call, kb_calls, gpt_reply>>

\* kb_search returns to the handler (api.py lines 118-128), which answers at
\* once or enters analyze_with_gpt and waits for the completion.
KbReturn(r, reply) ==
    /\ pc[r] = "kb_wait"
    /\ EventLoopFree(r)
    /\ kb_reply' = [kb_reply EXCEPT ![r] = reply]
    /\ docs' = [docs EXCEPT ![r] = kb_search(reply)]
    /\ LET step == solve_endpoint_after_search(claim[r], kb_search(reply)) IN
       CASE step.next = "respond" ->
              /\ pc' = [pc EXCEPT ![r] = "done"]
              /\ status' = [status EXCEPT ![r] = 200]
              /\ response' = [response EXCEPT ![r] = step.result]
              /\ UNCHANGED <<retrieved_context_ids, gpt_call, gpt_calls>>
         [] step.next = "escape" ->
              /\ pc' = [pc EXCEPT ![r] = "crashed"]
              /\ status' = [status EXCEPT ![r] = 500]
              /\ response' = [response EXCEPT ![r] = [detail |-> "Internal Server Error"]]
              /\ UNCHANGED <<retrieved_context_ids, gpt_call, gpt_calls>>
         [] step.next = "call_gpt" ->
              /\ pc' = [pc EXCEPT ![r] = "gpt_wait"]
              /\ retrieved_context_ids' =
                     [retrieved_context_ids EXCEPT ![r] = step.locals.retrieved_context_ids]
              /\ gpt_call' = [gpt_call EXCEPT ![r] = step.locals.request]
              /\ gpt_calls' = [gpt_calls EXCEPT ![r] = @ + 1]
              /\ UNCHANGED <<status, response>>
    /\ UNCHANGED <<startup, body, claim, kb_call, kb_calls, gpt_reply>>

\* GptReturn as it would be if docs were one module-level variable, written by
\* every request (here: the first slot's) instead of a local of the handler.
GptReturnSharedDocs(r, reply) ==
    /\ pc[r] = "gpt_wait"
    /\ EventLoopFree(r)
    /\ gpt_reply' = [gpt_reply EXCEPT ![r] = reply]
    /\ pc' = [pc EXCEPT ![r] = "done"]
    /\ status' = [status EXCEPT ![r] = 200]
    /\ response' = [response EXCEPT ![r] =
                       IF \A i \in 1..Len(docs[1]) : docs[1][i] \in GoodDocs
                       THEN analyze_with_gpt_finish(docs[1], retrieved_context_ids[r], reply)
                       ELSE endpoint_error_verdict("'doc_id'")]
    /\ UNCHANGED <<startup, body, claim, kb_call, kb_calls, kb_reply, docs,
                   retrieved_context_ids, gpt_call, gpt_calls>>

\* GptReturn as it would be if a failed completion call sent the handler back
\* to the search instead of to the error Verdict.
GptReturnRetrySearch(r, reply) ==
    /\ pc[r] = "gpt_wait"
    /\ EventLoopFree(r)
    /\ gpt_reply' = [gpt_reply EXCEPT ![r] = IF reply.kind = "raise" THEN NoGptReply ELSE reply]
    /\ IF reply.kind = "raise"
       THEN /\ pc' = [pc EXCEPT ![r] = "kb_wait"]
            /\ gpt_calls' = [gpt_calls EXCEPT ![r] = 0]
            /\ UNCHANGED <<status, response>>
       ELSE /\ pc' = [pc EXCEPT ![r] = "done"]
            /\ status' = [status EXCEPT ![r] = 200]
            /\ response' = [response EXCEPT ![r] =
                   analyze_with_gpt_finish(docs[r], retrieved_context_ids[r], reply)]
            /\ UNCHANGED gpt_calls
    /\ UNCHANGED <<startup, body, claim, kb_call, kb_calls, kb_reply, docs,
                   retrieved_context_ids, gpt_call>>

\* The completion call ends and analyze_with_gpt returns its dict, which the
\* handler returns unchanged (api.py lines 72-107, 128-129).
GptReturn(r, reply) ==
    /\ pc[r] = "gpt_wait"
    /\ EventLoopFree(r)
    /\ gpt_reply' = [gpt_reply EXCEPT ![r] = reply]
    /\ pc' = [pc EXCEPT ![r] = "done"]
    /\ status' = [status EXCEPT ![r] = 200]
    /\ response' = [response EXCEPT ![r] =
                       analyze_with_gpt_finish(docs[r], retrieved_context_ids[r], reply)]
    /\ UNCHANGED <<startup, body, claim, kb_call, kb_calls, kb_reply, docs,
                   retrieved_context_ids, gpt_call, gpt_calls>>

\* The answer has been sent: the coroutine and its locals are gone.
Deliver(r) ==
    /\ pc[r] \in {"done", "rejected", "crashed"}
    /\ pc' = [pc EXCEPT ![r] = "idle"]
    /\ body' = [body EXCEPT ![r] = NoBody]
    /\ claim' = [claim EXCEPT ![r] = NoClaim]
    /\ kb_call' = [kb_call EXCEPT ![r] = EmptyDict]
    /\ kb_calls' = [kb_calls EXCEPT ![r] = 0]
    /\ kb_reply' = [kb_reply EXCEPT ![r] = NoKbReply]
    /\ docs' = [docs EXCEPT ![r] = <<>>]
    /\ retrieved_context_ids' = [retrieved_context_ids EXCEPT ![r] = <<>>]
    /\ gpt_call' = [gpt_call EXCEPT ![r] = EmptyDict]
    /\ gpt_calls' = [gpt_calls EXCEPT ![r] = 0]
    /\ gpt_reply' = [gpt_reply EXCEPT ![r] = NoGptReply]
    /\ status' = [status EXCEPT ![r] = 0]
    /\ response' = [response EXCEPT ![r] = EmptyDict]
    /\ UNCHANGED startup

\* No other request is in flight.
Alone(r) == \A q \in Requests \ {r} : pc[q] = "idle"

\* Requests handled one at a time, with every input of the model.
ReceiveAlone == \E r \in Requests, json \in Bodies : Alone(r) /\ Receive(r, json)
KbReturnAny == \E r \in Requests, reply \in KbReplies : KbReturn(r, reply)
GptReturnAny == \E r \in Requests, reply \in GptReplies : GptReturn(r, reply)
DeliverAny == \E r \in Requests : Deliver(r)

Next ==
    \/ ModuleInit
    \/ ReceiveAlone
    \/ KbReturnAny
    \/ GptReturnAny
    \/ DeliverAny

Spec == Init /\ [][Next]_vars

\* Requests handled concurrently: any interleaving of the steps of the requests
\* in flight, with a menu of inputs that takes every branch of the handler.
ConcBodies == {Body("str", c) : c \in Claims} \cup {Body("missing", NoClaim)}
ConcKbReplies == {KbReply("Timeout", <<>>),
                  KbReply("results", <<DocWater>>),
                  KbReply("results", <<DocEarth, DocWater>>),
                  KbReply("results", <<DocNoId>>)}
ConcGptReplies == {GptReply("raise", "Connection error."),
                   GptReply("completion", TextVerdict),
                   GptReply("completion", TextProse)}

ReceiveConc == \E r \in Requests, json \in ConcBodies : Receive(r, json)
KbReturnConc == \E r \in Requests, reply \in ConcKbReplies : KbReturn(r, reply)
GptReturnConc == \E r \in Requests, reply \in ConcGptReplies : GptReturn(r, reply)

NextConc ==
    \/ ModuleInit
    \/ ReceiveConc
    \/ KbReturnConc
    \/ GptReturnConc
    \/ DeliverAny

SpecConc == Init /\ [][NextConc]_vars

\* Every outbound call a request issues eventually returns or raises: the
\* search has a 10-second timeout (api.py line 44), the completion call that of
\* the client library.
CallsReturn ==
    \A r \in Requests :
        /\ WF_vars(\E reply \in ConcKbReplies : KbReturn(r, reply))
        /\ WF_vars(\E reply \in ConcGptReplies : GptReturn(r, reply))

\* The concurrent requests of the fair specification all carry the same claim
\* or none: the claim's text decides no branch of the handler.
FairBodies == {Body("str", "The Earth is flat"), Body("missing", NoClaim)}
ReceiveFair == \E r \in Requests, json \in FairBodies : Receive(r, json)

NextFair ==
    \/ ModuleInit
    \/ ReceiveFair
    \/ KbReturnConc
    \/ GptReturnConc
    \/ DeliverAny

SpecFair == Init /\ [][NextFair]_vars /\ CallsReturn

\* ---------------------------------------------------------------- properties

\* The request in slot r has been answered by solve_endpoint.
Answered(r) == pc[r] = "done"

\* The identifiers of a list of documents, in order.
IdsOf(ds) == [i \in 1..Len(ds) |-> ds[i].doc_id]

\* "{doc_id}: {content}" of every document, joined by "; ".
LineOf(d) == d.doc_id \o ": " \o d.content
CitationOf(ds) ==
    LET acc[i \in 0..Len(ds)] ==
            IF i = 0 THEN ""
            ELSE IF i = 1 THEN LineOf(ds[1])
            ELSE acc[i - 1] \o "; " \o LineOf(ds[i])
    IN acc[Len(ds)]

AllDocuments(ds) == \A i \in 1..Len(ds) : ds[i] \in GoodDocs

VerdictKeys == {"thought_process", "final_answer", "citation", "retrieved_context_ids"}

\* C1: whenever kb_search returned an empty list, the answer is exactly the
\* fixed no-documents Verdict: these four keys with these values, no other key
\* (no error field), whatever the claim.
C1_NoDocumentsFallback ==
    \A r \in Requests :
        (Answered(r) /\ Len(docs[r]) = 0) =>
            /\ status[r] = 200
            /\ response[r] = [thought_process |-> "No documents found in KB.",
                              final_answer |-> "Partially True",
                              citation |-> "",
                              retrieved_context_ids |-> <<>>]

\* C1 witness: a search that succeeded with an empty "results" list has been
\* answered.
C1_Witness ==
    \E r \in Requests :
        /\ Answered(r)
        /\ kb_reply[r] = KbReply("results", <<>>)
        /\ claim[r] = "The Earth is flat"
        /\ DOMAIN response[r] = VerdictKeys

\* The ways the search can fail that C2 names: transport error, timeout,
\* non-success status, and a response body that cannot be used.
KbTransportFailed(reply) == reply.kind \in {"ConnectionError", "Timeout", "HTTPError"}
KbBodyUnreadable(reply) == reply.kind \in {"body_not_json", "body_not_object", "results_null"}
KbBodyNotDocuments(reply) ==
    reply.kind = "results" /\ Len(reply.results) > 0 /\ ~AllDocuments(reply.results)
KbFailed(reply) ==
    KbTransportFailed(reply) \/ KbBodyUnreadable(reply) \/ KbBodyNotDocuments(reply)

\* C2 as stated: every failed search (unusable bodies included) is answered
\* exactly like a search that found nothing.
C2_AnyFailureLooksEmpty ==
    \A r \in Requests :
        (Answered(r) /\ KbFailed(kb_reply[r])) =>
            /\ Len(docs[r]) = 0
            /\ response[r] = [thought_process |-> "No documents found in KB.",
                              final_answer |-> "Partially True",
                              citation |-> "",
                              retrieved_context_ids |-> <<>>]

\* C2 amended: a transport error, a timeout, a non-success status, a body that
\* is not JSON, a JSON body that is not an object and a "results" without a
\* length all make kb_search return [] and are answered exactly like a search
\* that found nothing; a non-empty "results" holding an element that is not a
\* document is returned unchanged and is answered with the handler's error
\* fallback, which carries an error field.
C2_FailureLooksEmptyUnlessResultsReturned ==
    \A r \in Requests :
        Answered(r) =>
            /\ (KbTransportFailed(kb_reply[r]) \/ KbBodyUnreadable(kb_reply[r])) =>
                   /\ Len(docs[r]) = 0
                   /\ response[r] = [thought_process |-> "No documents found in KB.",
                                     final_answer |-> "Partially True",
                                     citation |-> "",
                                     retrieved_context_ids |-> <<>>]
            /\ KbBodyNotDocuments(kb_reply[r]) =>
                   /\ docs[r] = kb_reply[r].results
                   /\ DOMAIN response[r] = VerdictKeys \cup {"error"}
                   /\ response[r].thought_process = ""
                   /\ response[r].retrieved_context_ids = <<>>

\* C2 witness: a search that ended with a non-success status has been answered.
C2_Witness ==
    \E r \in Requests :
        /\ Answered(r)
        /\ kb_reply[r].kind = "HTTPError"
        /\ "error" \notin DOMAIN response[r]

\* Completion texts that are JSON, and those that are not.
JsonTexts == {TextVerdict, TextEmptyObject, TextArray, TextOwnIds, TextErrorKey}
JsonObjectTexts == {TextVerdict, TextEmptyObject, TextOwnIds, TextErrorKey}
NotJsonTexts == {TextProse, TextPreface}

\* C3: when documents were retrieved and the completion is valid JSON, the
\* answer's retrieved_context_ids is the doc_id of every retrieved document in
\* the order received, whatever the completion holds (its own
\* retrieved_context_ids included).
C3_IdsAreRetrievedIds ==
    \A r \in Requests :
        (/\ Answered(r)
         /\ Len(docs[r]) > 0
         /\ gpt_reply[r].kind = "completion"
         /\ gpt_reply[r].text \in JsonTexts) =>
            /\ "retrieved_context_ids" \in DOMAIN response[r]
            /\ response[r].retrieved_context_ids = IdsOf(docs[r])

\* C3 witness: two documents came back as D2, D1 and the completion brought its
\* own retrieved_context_ids.
C3_Witness ==
    \E r \in Requests :
        /\ Answered(r)
        /\ docs[r] = <<DocEarth, DocWater>>
        /\ gpt_reply[r] = GptReply("completion", TextOwnIds)
        /\ response[r].retrieved_context_ids = <<"D2", "D1">>

\* C4: when the completion text is not valid JSON the answer is exactly
\* thought_process = the raw text, final_answer = "Partially True", citation =
\* the "{doc_id}: {content}" of every retrieved document joined by "; ",
\* retrieved_context_ids = the retrieved identifiers, and nothing else (no
\* error field).
C4_ParseFallback ==
    \A r \in Requests :
        (/\ Answered(r)
         /\ gpt_reply[r].kind = "completion"
         /\ gpt_reply[r].text \in NotJsonTexts) =>
            response[r] = [thought_process |-> gpt_reply[r].text,
                           final_answer |-> "Partially True",
                           citation |-> CitationOf(docs[r]),
                           retrieved_context_ids |-> IdsOf(docs[r])]

\* C4 witness: two documents and a prose completion.
C4_Witness ==
    \E r \in Requests :
        /\ Answered(r)
        /\ docs[r] = <<DocWater, DocEarth>>
        /\ gpt_reply[r] = GptReply("completion", TextProse)
        /\ response[r].citation =
               "D1: Water boils at 100C at standard atmospheric pressure.; D2: The Earth is an oblate spheroid."

\* C5 as stated: when the completion call raised, the answer has a non-empty
\* error field with the failure description, an empty thought_process,
\* final_answer "Partially True", the fallback citation and the retrieved
\* identifiers.
C5_ReasoningErrorVerdict ==
    \A r \in Requests :
        (Answered(r) /\ gpt_reply[r].kind = "raise") =>
            /\ "error" \in DOMAIN response[r]
            /\ response[r].error # ""
            /\ response[r] = [thought_process |-> "",
                              final_answer |-> "Partially True",
                              citation |-> CitationOf(docs[r]),
                              retrieved_context_ids |-> IdsOf(docs[r]),
                              error |-> gpt_reply[r].text]

\* What doc[key] raises on an element that is not a document.
SubscriptError(d, key) ==
    IF "str" \in DOMAIN d THEN "string indices must be integers"
    ELSE IF key = "doc_id" THEN "'doc_id'" ELSE "'content'"

\* The first element of ds that has the defect.
FirstWithout(ds, key) ==
    CHOOSE i \in 1..Len(ds) :
        /\ key \notin DOMAIN ds[i]
        /\ \A j \in 1..(i - 1) : key \in DOMAIN ds[j]

\* The description of the exception analyze_with_gpt lets out on ds: line 56
\* runs over all elements before line 57 does.
ExceptionOf(ds) ==
    IF \E i \in 1..Len(ds) : "doc_id" \notin DOMAIN ds[i]
    THEN SubscriptError(ds[FirstWithout(ds, "doc_id")], "doc_id")
    ELSE SubscriptError(ds[FirstWithout(ds, "content")], "content")

\* C6: an exception that reaches solve_endpoint (a retrieved element lacking
\* doc_id or content, or not a dict) never leaves it: the request is answered
\* with status 200 and exactly the fixed fallback Verdict plus an error field
\* holding the exception's description.
C6_HandlerCatchesEverything ==
    \A r \in Requests :
        /\ pc[r] # "crashed"
        /\ (Answered(r) /\ Len(docs[r]) > 0 /\ ~AllDocuments(docs[r])) =>
               /\ status[r] = 200
               /\ response[r] = [thought_process |-> "",
                                 final_answer |-> "Partially True",
                                 citation |-> "",
                                 retrieved_context_ids |-> <<>>,
                                 error |-> ExceptionOf(docs[r])]

\* C6 witness: the second retrieved element has no content, and the request has
\* been answered with the KeyError's description.
C6_Witness ==
    \E r \in Requests :
        /\ Answered(r)
        /\ docs[r] = <<DocWater, DocNoContent>>
        /\ response[r].error = "'content'"

\* C7 as stated: every answer of solve_endpoint has the four Verdict keys.
C7_AlwaysVerdictShaped ==
    \A r \in Requests : Answered(r) => VerdictKeys \subseteq DOMAIN response[r]

\* C8: two requests with the same claim, for which the search service and the
\* completion service did the same, get the same answer, whatever else was
\* handled before or is in flight with them.
C8_SameInputsSameResponse ==
    \A r1, r2 \in Requests :
        (/\ Answered(r1) /\ Answered(r2)
         /\ claim[r1] = claim[r2]
         /\ kb_reply[r1] = kb_reply[r2]
         /\ gpt_reply[r1] = gpt_reply[r2]) =>
            /\ response[r1] = response[r2]
            /\ status[r1] = status[r2]

\* C8 witness: two requests are answered at the same time with the same claim,
\* documents and completion.
C8_Witness ==
    \E r1, r2 \in Requests :
        /\ r1 # r2
        /\ Answered(r1) /\ Answered(r2)
        /\ claim[r1] = claim[r2]
        /\ kb_reply[r1] = KbReply("results", <<DocEarth, DocWater>>)
        /\ kb_reply[r2] = kb_reply[r1]
        /\ gpt_reply[r1] = GptReply("completion", TextProse)
        /\ gpt_reply[r2] = gpt_reply[r1]

\* A body that does not fit the declared schema has been received in slot r and
\* answered.
MalformedAnswered(r) ==
    body[r].kind \in {"missing", "null"} /\ pc[r] \in {"done", "rejected", "crashed"}

\* C9 as stated: a body without a string claim is answered with the fixed
\* fallback Verdict carrying an error description.
C9_MalformedBodyGetsFallbackVerdict ==
    \A r \in Requests :
        MalformedAnswered(r) =>
            /\ status[r] = 200
            /\ DOMAIN response[r] = VerdictKeys \cup {"error"}

\* C10 as stated: the final_answer of every answer of solve_endpoint is one of
\* the three labels.
C10_LabelInRange ==
    \A r \in Requests :
        Answered(r) =>
            /\ "final_answer" \in DOMAIN response[r]
            /\ response[r].final_answer \in {"True", "False", "Partially True"}

\* C11 as stated: startup fails exactly when the credential is absent from the
\* process environment; with the credential present initialisation completes
\* and /solve is served, with it absent nothing is ever served.
C11_StartupFailsIffCredentialAbsent ==
    /\ app # "loading" => (app = "serving" <=> "OPENAI_API_KEY" \in DOMAIN environ)
    /\ \A r \in Requests : pc[r] # "idle" => "OPENAI_API_KEY" \in DOMAIN environ

\* The request in slot r has reached solve_endpoint.
Handled(r) == pc[r] \in {"kb_wait", "gpt_wait", "done"}
KbReturned(r) == kb_reply[r] # NoKbReply
GptReturned(r) == gpt_reply[r] # NoGptReply

\* What C12 says of the order of the two outbound calls, with the condition
\* under which the completion request is sent left open.
CallOrder(r, gpt_is_called) ==
    /\ Handled(r) => kb_calls[r] = 1
    /\ pc[r] = "kb_wait" => (~KbReturned(r) /\ gpt_calls[r] = 0 /\ gpt_call[r] = EmptyDict)
    /\ gpt_calls[r] <= 1
    /\ gpt_calls[r] = 1 => KbReturned(r)
    /\ KbReturned(r) => (gpt_calls[r] = 1 <=> gpt_is_called)
    /\ pc[r] = "gpt_wait" => (gpt_calls[r] = 1 /\ ~GptReturned(r))
    /\ Answered(r) => (KbReturned(r) /\ (gpt_calls[r] = 1 => GptReturned(r)))

\* C12 as stated: the search request is sent exactly once and first; the
\* completion request at most once, after the search returned, and if and only
\* if the search returned a non-empty list; the answer comes after the last
\* call returned.
C12_CallOrderNonEmpty ==
    \A r \in Requests : CallOrder(r, Len(docs[r]) > 0)

\* C12 amended: as stated, except that the completion request is sent if and
\* only if the search returned a non-empty list of which every element has
\* doc_id and content (otherwise analyze_with_gpt raises before it sends
\* anything).
C12_CallOrderDocuments ==
    \A r \in Requests : CallOrder(r, Len(docs[r]) > 0 /\ AllDocuments(docs[r]))

\* C12 witness: a request answered after both calls were sent once and
\* returned.
C12_Witness ==
    \E r \in Requests :
        /\ Answered(r)
        /\ kb_calls[r] = 1 /\ gpt_calls[r] = 1
        /\ docs[r] = <<DocWater>>
        /\ gpt_reply[r] = GptReply("completion", TextVerdict)

\* The completion in slot r is the given text, and documents were retrieved.
ParsedPath(r, text) ==
    /\ Answered(r)
    /\ Len(docs[r]) > 0
    /\ gpt_reply[r] = GptReply("completion", text)

ReasoningRaised(r) ==
    \/ gpt_reply[r].kind \in {"raise", "no_choices", "no_content"}
    \/ gpt_reply[r] = GptReply("completion", TextArray)
HandlerCaught(r) == Len(docs[r]) > 0 /\ ~AllDocuments(docs[r])

\* C14 as stated: the answer carries an error field if and only if a failure
\* occurred; the no-documents, parsed and parse-fallback answers never do,
\* whatever the completion text holds.
C14_ErrorFieldIffFailure ==
    \A r \in Requests :
        Answered(r) =>
            ("error" \in DOMAIN response[r] <=> (ReasoningRaised(r) \/ HandlerCaught(r)))

\* The identifiers found in a "results" list: the doc_id of every element that
\* has one, in order.
HasDocId(d) == "doc_id" \in DOMAIN d
KnownIds(ds) == IdsOf(SelectSeq(ds, HasDocId))

\* C15 as stated: whenever kb_search returned a non-empty list, the answer's
\* retrieved_context_ids is the non-empty list of the identifiers of those
\* elements, on every path, the handler's exception path included.
C15_IdsAlwaysAttached ==
    \A r \in Requests :
        (Answered(r) /\ Len(docs[r]) > 0) =>
            /\ "retrieved_context_ids" \in DOMAIN response[r]
            /\ response[r].retrieved_context_ids # <<>>
            /\ response[r].retrieved_context_ids = KnownIds(docs[r])

\* C15 amended: whenever kb_search returned a non-empty list, the answer's
\* retrieved_context_ids is the list of the documents' identifiers on the
\* parsed, parse-fallback and reasoning-failure paths, and is empty on the
\* handler's exception path (an element lacking doc_id or content).
C15_IdsAttachedUnlessHandlerCaught ==
    \A r \in Requests :
        (Answered(r) /\ Len(docs[r]) > 0) =>
            /\ "retrieved_context_ids" \in DOMAIN response[r]
            /\ AllDocuments(docs[r]) =>
                   /\ response[r].retrieved_context_ids = IdsOf(docs[r])
                   /\ response[r].retrieved_context_ids # <<>>
            /\ ~AllDocuments(docs[r]) => response[r].retrieved_context_ids = <<>>

\* C15 witness: the completion call raised after D2, D1 were retrieved, and the
\* answer names both.
C15_Witness ==
    \E r \in Requests :
        /\ Answered(r)
        /\ docs[r] = <<DocEarth, DocWater>>
        /\ gpt_reply[r] = GptReply("raise", "Request timed out.")
        /\ response[r].retrieved_context_ids = <<"D2", "D1">>

\* The "identifier: content" lines of a list of documents, one blank line
\* between two of them.
ContextOf(ds) ==
    LET acc[i \in 0..Len(ds)] ==
            IF i = 0 THEN ""
            ELSE IF i = 1 THEN LineOf(ds[1])
            ELSE acc[i - 1] \o "\n\n" \o LineOf(ds[i])
    IN acc[Len(ds)]

\* The list the search reply of a request holds.
OwnResults(reply) == IF reply.kind = "results" THEN reply.results ELSE <<>>

\* The answer to a request, from its own search reply and completion reply
\* alone.
OwnAnswer(kb, gpt) ==
    LET ds == OwnResults(kb) IN
    IF Len(ds) = 0
    THEN [thought_process |-> "No documents found in KB.", final_answer |-> "Partially True",
          citation |-> "", retrieved_context_ids |-> <<>>]
    ELSE IF ~AllDocuments(ds)
    THEN [thought_process |-> "", final_answer |-> "Partially True", citation |-> "",
          retrieved_context_ids |-> <<>>, error |-> ExceptionOf(ds)]
    ELSE CASE gpt.kind = "raise" ->
                [thought_process |-> "", final_answer |-> "Partially True",
                 citation |-> CitationOf(ds), retrieved_context_ids |-> IdsOf(ds),
                 error |-> gpt.text]
           [] gpt = GptReply("completion", TextVerdict) ->
                [thought_process |-> "...", final_answer |-> "True", citation |-> "D1",
                 retrieved_context_ids |-> IdsOf(ds)]
           [] gpt = GptReply("completion", TextProse) ->
                [thought_process |-> TextProse, final_answer |-> "Partially True",
                 citation |-> CitationOf(ds), retrieved_context_ids |-> IdsOf(ds)]

\* C16: with any number of requests in flight and any interleaving of their
\* steps, what a request holds comes from that request alone: its search
\* request carries its claim, its docs are the list its own search returned,
\* its completion request is built from its claim and its docs, and its answer
\* is the one its own search reply and completion reply determine.
C16_RequestsIsolated ==
    \A r \in Requests :
        /\ Handled(r) => kb_call[r].query = claim[r]
        /\ KbReturned(r) => docs[r] = OwnResults(kb_reply[r])
        /\ gpt_calls[r] = 1 =>
               /\ gpt_call[r].claim = claim[r]
               /\ gpt_call[r].context_text = ContextOf(docs[r])
               /\ retrieved_context_ids[r] = IdsOf(docs[r])
        /\ Answered(r) => response[r] = OwnAnswer(kb_reply[r], gpt_reply[r])

\* C16 witness: two requests with different claims and different documents are
\* in flight together; the second has been answered while the first still
\* waits for its completion.
C16_Witness ==
    \E r1, r2 \in Requests :
        /\ pc[r1] = "gpt_wait" /\ docs[r1] = <<DocWater>>
        /\ claim[r1] = "Water boils at 100C at sea level"
        /\ Answered(r2) /\ docs[r2] = <<DocEarth, DocWater>>
        /\ claim[r2] = "The Earth is flat"
        /\ response[r2].retrieved_context_ids = <<"D2", "D1">>

\* The request in slot q waits for one of its external calls.
Blocked(q) == pc[q] \in {"kb_wait", "gpt_wait"}

NoDocumentsOutcome(r) ==
    /\ Len(docs[r]) = 0 /\ gpt_calls[r] = 0
    /\ response[r].thought_process = "No documents found in KB."
    /\ "error" \notin DOMAIN response[r]
ReasoningOutcome(r) ==
    /\ Len(docs[r]) > 0 /\ gpt_calls[r] = 1 /\ GptReturned(r)
    /\ response[r].retrieved_context_ids = IdsOf(docs[r])
HandlerExceptionOutcome(r) ==
    /\ Len(docs[r]) > 0 /\ gpt_calls[r] = 0 /\ ~GptReturned(r)
    /\ response[r].thought_process = ""
    /\ response[r].retrieved_context_ids = <<>>
    /\ "error" \in DOMAIN response[r]
TerminalOutcome(r) ==
    \/ NoDocumentsOutcome(r) /\ ~ReasoningOutcome(r) /\ ~HandlerExceptionOutcome(r)
    \/ ReasoningOutcome(r) /\ ~NoDocumentsOutcome(r) /\ ~HandlerExceptionOutcome(r)
    \/ HandlerExceptionOutcome(r) /\ ~NoDocumentsOutcome(r) /\ ~ReasoningOutcome(r)

\* A request inside solve_endpoint that has not been answered yet.
InHandler(r) == pc[r] \in {"kb_wait", "gpt_wait"}

\* C18: when every outbound call returns or raises, a request that entered
\* solve_endpoint is eventually answered; nothing is sent before that; the
\* answer is one of the three terminal outcomes, with status 200; and once
\* given it stays as it is until it has been sent, so there is exactly one.
C18_EventuallyOneTerminalResponse ==
    /\ \A r \in Requests : InHandler(r) ~> Answered(r)
    /\ [](\A r \in Requests :
              /\ InHandler(r) => (status[r] = 0 /\ response[r] = EmptyDict)
              /\ Answered(r) => (status[r] = 200 /\ TerminalOutcome(r))
              /\ pc[r] # "crashed")
    /\ [][\A r \in Requests :
              Answered(r) =>
                  \/ pc'[r] = "idle"
                  \/ Answered(r)' /\ response'[r] = response[r] /\ status'[r] = status[r]]_vars

\* C18 witness: of two requests in flight together, one has ended in the
\* handler-exception fallback and the other in the reasoning step's error
\* Verdict.
C18_Witness ==
    \E r, q \in Requests :
        /\ Answered(r) /\ HandlerExceptionOutcome(r) /\ response[r].error = "'doc_id'"
        /\ Answered(q) /\ ReasoningOutcome(q) /\ gpt_reply[q].kind = "raise"


\* C19 as stated: whatever the search service returns, no more than TOP_K (5)
\* documents are held, forwarded to the reasoning call or named in the answer.
C19_NeverMoreThanTopK ==
    \A r \in Requests :
        /\ Len(docs[r]) <= 5
        /\ gpt_calls[r] = 1 => Len(retrieved_context_ids[r]) <= 5
        /\ Answered(r) => Len(response[r].retrieved_context_ids) <= 5

\* C19, amended: the search request always asks for TOP_K (5) documents, and
\* the handler forwards exactly the list the service returned, however long:
\* the reasoning call gets a line for each returned element, and the answer of
\* the reasoning step names as many identifiers as elements were returned. The
\* limit holds whenever the service returns no more than it was asked for.
C19_ForwardsWhatTheServiceReturned ==
    \A r \in Requests :
        /\ Handled(r) => kb_call[r].top_k = 5
        /\ KbReturned(r) => Len(docs[r]) = Len(OwnResults(kb_reply[r]))
        /\ gpt_calls[r] = 1 =>
               /\ Len(retrieved_context_ids[r]) = Len(OwnResults(kb_reply[r]))
               /\ gpt_call[r].context_text = ContextOf(OwnResults(kb_reply[r]))
        /\ (Answered(r) /\ GptReturned(r)) =>
               Len(response[r].retrieved_context_ids) = Len(OwnResults(kb_reply[r]))
        /\ (Answered(r) /\ Len(OwnResults(kb_reply[r])) <= kb_call[r].top_k) =>
               Len(response[r].retrieved_context_ids) <= 5

\* C19 witness: the service returned six documents to a request for five, and
\* the answer names all six.
C19_Witness ==
    \E r \in Requests :
        /\ Answered(r) /\ GptReturned(r)
        /\ kb_call[r].top_k = 5
        /\ Len(kb_reply[r].results) = 6
        /\ response[r].retrieved_context_ids = <<"D1", "D2", "D1", "D2", "D1", "D2">>

=============================================================================
